---- MODULE Spec2Model ----
(***************************************************************************)
(* User-service authentication core: configuration load, credential store  *)
(* seeding, password verification, token issue / verification, the         *)
(* jwt_required gate and the three endpoints /login, /verify and /users.   *)
(*                                                                         *)
(* Time is counted in whole hours (the unit of JWT_EXPIRATION_HOURS); the  *)
(* library's expiry test "exp <= now" is kept as it is, so the instant     *)
(* now = exp is a state of the model.                                      *)
(***************************************************************************)
EXTENDS Integers, Sequences, FiniteSets, TLC

\* ------------------------------------------------------------------ bounds
MaxTime == 3

\* ------------------------------------------------------- environment input
\* os.environ.get(name, default): a variable is either unset or a string.
Unset == "<unset>"

EnvSecrets == {Unset, "", "k1"}
EnvHours == {Unset, "abc", "-1", "0", "1"}

EnvGet(e, name, default) == IF e[name] = Unset THEN default ELSE e[name]

\* int(str): the decimal strings the model uses; anything else raises ValueError
IsIntString(s) == s \in {"-1", "0", "1", "24"}

IntOf(s) ==
  CASE s = "-1" -> 0 - 1
    [] s = "0"  -> 0
    [] s = "1"  -> 1
    [] s = "24" -> 24

\* ----------------------------------------------------------------- Config
ConfigLoads(e) == IsIntString(EnvGet(e, "JWT_EXPIRATION_HOURS", "24"))

Config(e) ==
  [ JWT_SECRET_KEY       |-> EnvGet(e, "JWT_SECRET_KEY", "dev-secret-change-in-production"),
    JWT_ALGORITHM        |-> "HS256",
    JWT_EXPIRATION_HOURS |-> IntOf(EnvGet(e, "JWT_EXPIRATION_HOURS", "24")) ]

NoConfig == [ JWT_SECRET_KEY |-> "", JWT_ALGORITHM |-> "", JWT_EXPIRATION_HOURS |-> 0 ]

get_jwt_expiration(c) == c.JWT_EXPIRATION_HOURS

\* ------------------------------------------------------- password hashing
\* A bcrypt hash string embeds its salt; the digest is represented by the
\* plaintext it was computed from.  A string in another format has fmt # "bcrypt".
BcryptHash(salt, plain) == [ fmt |-> "bcrypt", salt |-> salt, digest |-> plain ]
ForeignHash(text) == [ fmt |-> "foreign", salt |-> "", digest |-> text ]

\* gensalt() returns a fresh salt on every call: the n-th call's salt is n.
get_password_hash(password, n) == BcryptHash(ToString(n), password)

\* JSON values of the request body
JStr(s) == [ t |-> "string", s |-> s ]
JNum(s) == [ t |-> "number", s |-> s ]
JNull == [ t |-> "null", s |-> "" ]

\* Python truthiness of a JSON value ("not x" is its negation)
Truthy(v) == \/ v.t = "string" /\ v.s # ""
             \/ v.t = "number" /\ v.s # "0"

\* verify_password: password.encode raises on a non-string, bcrypt.checkpw
\* raises ValueError("Invalid salt") on a hash string it cannot parse.
verify_password(password, hashed) ==
  IF password.t # "string" THEN [ raised |-> TRUE, value |-> FALSE ]
  ELSE IF hashed.fmt # "bcrypt" THEN [ raised |-> TRUE, value |-> FALSE ]
  ELSE [ raised |-> FALSE, value |-> (hashed.digest = password.s) ]

\* ------------------------------------------------------- credential store
sample_users ==
  << [ username |-> "admin", email |-> "admin@example.com", password |-> "admin123" ],
     [ username |-> "user1", email |-> "user1@example.com", password |-> "password1" ],
     [ username |-> "user2", email |-> "user2@example.com", password |-> "password2" ] >>

\* A users table that existed before the process started (CREATE TABLE IF NOT
\* EXISTS keeps it, and seeding is skipped when it has rows).
EmptyTable == {}
ProvisionedTable ==
  { [ id |-> 1, username |-> "legacy", email |-> "legacy@example.com",
      password_hash |-> ForeignHash("md5:legacy") ],
    [ id |-> 2, username |-> "admin", email |-> "admin@example.com",
      password_hash |-> BcryptHash("0", "admin123") ] }

init_db(table) ==
  IF Cardinality(table) = 0
  THEN { [ id |-> i, username |-> sample_users[i].username,
           email |-> sample_users[i].email,
           password_hash |-> get_password_hash(sample_users[i].password, i) ]
         : i \in 1..Len(sample_users) }
  ELSE table

\* SELECT * FROM users WHERE username = ? (exact match, username is UNIQUE)
UserExists(table, username) == \E r \in table : r.username = username
get_user_by_username(table, username) == CHOOSE r \in table : r.username = username

get_all_users(table) ==
  { [ id |-> r.id, username |-> r.username, email |-> r.email ] : r \in table }

\* ------------------------------------------------------------------ tokens
ClaimNames == {"sub", "username", "iat", "exp", "iss"}

NoPayload == [ has |-> {}, sub |-> "", username |-> "", iat |-> 0, exp |-> 0, iss |-> "" ]
NoToken == [ alg |-> "", key |-> "", claims |-> NoPayload ]

\* str(user_id)
IdStr(id) == ToString(id)

\* create_jwt_token signing with the built-in key instead of the configured one
create_jwt_token_builtin_key(c, user_id, username, now) ==
  [ alg    |-> c.JWT_ALGORITHM,
    key    |-> "dev-secret-change-in-production",
    claims |-> [ has      |-> {"sub", "username", "iat", "exp", "iss"},
                 sub      |-> IdStr(user_id),
                 username |-> username,
                 iat      |-> now,
                 exp      |-> now + get_jwt_expiration(c),
                 iss      |-> "user-service" ] ]

create_jwt_token(c, user_id, username, now) ==
  [ alg    |-> c.JWT_ALGORITHM,
    key    |-> c.JWT_SECRET_KEY,
    claims |-> [ has      |-> {"sub", "username", "iat", "exp", "iss"},
                 sub      |-> IdStr(user_id),
                 username |-> username,
                 iat      |-> now,
                 exp      |-> now + get_jwt_expiration(c),
                 iss      |-> "user-service" ] ]

\* Strings that can hold a token (header values, the query parameter) are
\* sequences of atoms: a whitespace character, a word, or a well-formed
\* three-segment JWT.
SP == [ k |-> "ws", w |-> " ", t |-> NoToken ]
TAB == [ k |-> "ws", w |-> "\t", t |-> NoToken ]
W(s) == [ k |-> "word", w |-> s, t |-> NoToken ]
T(tok) == [ k |-> "tok", w |-> "", t |-> tok ]

\* decode_jwt_token that still accepts a token at the instant now = exp
decode_jwt_token_late_expiry(c, s, now) ==
  IF ~(Len(s) = 1 /\ s[1].k = "tok")
  THEN [ outcome |-> "InvalidTokenError", detail |-> "Not enough segments", payload |-> NoPayload ]
  ELSE LET tok == s[1].t IN
    IF tok.alg # c.JWT_ALGORITHM
    THEN [ outcome |-> "InvalidTokenError", detail |-> "The specified alg value is not allowed", payload |-> NoPayload ]
    ELSE IF tok.key # c.JWT_SECRET_KEY
    THEN [ outcome |-> "InvalidTokenError", detail |-> "Signature verification failed", payload |-> NoPayload ]
    ELSE IF "exp" \notin tok.claims.has
    THEN [ outcome |-> "InvalidTokenError", detail |-> "Token is missing the exp claim", payload |-> NoPayload ]
    ELSE IF "iat" \notin tok.claims.has
    THEN [ outcome |-> "InvalidTokenError", detail |-> "Token is missing the iat claim", payload |-> NoPayload ]
    ELSE IF "sub" \notin tok.claims.has
    THEN [ outcome |-> "InvalidTokenError", detail |-> "Token is missing the sub claim", payload |-> NoPayload ]
    ELSE IF tok.claims.exp < now
    THEN [ outcome |-> "ExpiredSignatureError", detail |-> "Signature has expired", payload |-> NoPayload ]
    ELSE [ outcome |-> "ok", detail |-> "", payload |-> tok.claims ]

\* jwt.decode(token, key, algorithms=[alg], options={'require': [exp, iat, sub]})
decode_jwt_token(c, s, now) ==
  IF ~(Len(s) = 1 /\ s[1].k = "tok")
  THEN [ outcome |-> "InvalidTokenError", detail |-> "Not enough segments", payload |-> NoPayload ]
  ELSE LET tok == s[1].t IN
    IF tok.alg # c.JWT_ALGORITHM
    THEN [ outcome |-> "InvalidTokenError", detail |-> "The specified alg value is not allowed", payload |-> NoPayload ]
    ELSE IF tok.key # c.JWT_SECRET_KEY
    THEN [ outcome |-> "InvalidTokenError", detail |-> "Signature verification failed", payload |-> NoPayload ]
    ELSE IF "exp" \notin tok.claims.has
    THEN [ outcome |-> "InvalidTokenError", detail |-> "Token is missing the exp claim", payload |-> NoPayload ]
    ELSE IF "iat" \notin tok.claims.has
    THEN [ outcome |-> "InvalidTokenError", detail |-> "Token is missing the iat claim", payload |-> NoPayload ]
    ELSE IF "sub" \notin tok.claims.has
    THEN [ outcome |-> "InvalidTokenError", detail |-> "Token is missing the sub claim", payload |-> NoPayload ]
    ELSE IF tok.claims.exp <= now
    THEN [ outcome |-> "ExpiredSignatureError", detail |-> "Signature has expired", payload |-> NoPayload ]
    ELSE [ outcome |-> "ok", detail |-> "", payload |-> tok.claims ]

\* Response texts.  An f-string message is its fixed part and the inserted part.
M(text) == [ text |-> text, detail |-> "" ]
NoMsg == M("")

verify_jwt_token(c, s, now) ==
  LET d == decode_jwt_token(c, s, now) IN
    IF d.outcome = "ok"
    THEN [ ok |-> TRUE, payload |-> d.payload, error |-> NoMsg ]
    ELSE IF d.outcome = "ExpiredSignatureError"
    THEN [ ok |-> FALSE, payload |-> NoPayload, error |-> M("Token has expired") ]
    ELSE [ ok |-> FALSE, payload |-> NoPayload,
           error |-> [ text |-> "Invalid token: ", detail |-> d.detail ] ]

NoVerdict == [ ok |-> FALSE, payload |-> NoPayload, error |-> NoMsg ]

\* ------------------------------------------------------ request / response
NoBody == [ present |-> FALSE, username |-> JNull, password |-> JNull ]
NoQuery == [ present |-> FALSE, v |-> <<>> ]
NoUser == [ id |-> 0, username |-> "", email |-> "" ]
NoIntrospection == [ user_id |-> "", username |-> "", issued_at |-> 0, expires_at |-> 0 ]

\* One request with everything the service did for it: the inputs, the
\* response (status, error / message and body fields), whether the Token
\* Verifier was called and with what, and whether the protected handler ran.
NoReq ==
  [ op |-> "none", at |-> 0, body |-> NoBody, query |-> NoQuery, header |-> <<>>,
    status |-> 0, error |-> NoMsg, raised |-> FALSE, message |-> "",
    token |-> NoToken, user |-> NoUser,
    valid |-> FALSE, payload |-> NoIntrospection,
    vcalled |-> FALSE, vtoken |-> <<>>, verdict |-> NoVerdict,
    handler |-> FALSE, current_user |-> NoPayload,
    users |-> {}, total |-> 0, requested_by |-> "" ]

\* An exception that leaves a view function: Flask answers through the 500 handler.
internal_error(r) ==
  [ r EXCEPT !.status = 500, !.error = M("Internal server error"), !.raised = TRUE ]

Reject(r, status, msg) == [ r EXCEPT !.status = status, !.error = msg ]

\* ------------------------------------------------------------------ /login
login(c, table, body, now) ==
  IF ~body.present
  THEN Reject(NoReq, 400, M("Request body required"))
  ELSE IF ~Truthy(body.username) \/ ~Truthy(body.password)
  THEN Reject(NoReq, 400, M("Username and password required"))
  ELSE IF ~UserExists(table, body.username.s)
  THEN Reject(NoReq, 401, M("Invalid credentials"))
  ELSE LET user == get_user_by_username(table, body.username.s)
           v == verify_password(body.password, user.password_hash)
       IN IF v.raised
          THEN internal_error(NoReq)
          ELSE IF ~v.value
          THEN Reject(NoReq, 401, M("Invalid credentials"))
          ELSE [ NoReq EXCEPT
                   !.status = 200,
                   !.message = "Login successful",
                   !.token = create_jwt_token(c, user.id, user.username, now),
                   !.user = [ id |-> user.id, username |-> user.username,
                              email |-> user.email ] ]

\* ----------------------------------------------------------- jwt_required
\* str.split(): the maximal runs of non-whitespace characters, in order
RECURSIVE split_from(_, _, _)
split_from(s, cur, acc) ==
  IF s = <<>>
  THEN IF cur = <<>> THEN acc ELSE Append(acc, cur)
  ELSE IF Head(s).k = "ws"
  THEN split_from(Tail(s), <<>>, IF cur = <<>> THEN acc ELSE Append(acc, cur))
  ELSE split_from(Tail(s), Append(cur, Head(s)), acc)

split(s) == split_from(s, <<>>, <<>>)

\* str.lower() on the words the model uses
LowerWord(w) ==
  CASE w = "Bearer" -> "bearer"
    [] w = "BEARER" -> "bearer"
    [] w = "Token"  -> "token"
    [] OTHER        -> w

lower(s) == [ i \in 1..Len(s) |-> IF s[i].k = "word" THEN W(LowerWord(s[i].w)) ELSE s[i] ]

\* decorated() without the return on an invalid token: the view function runs anyway
jwt_required_no_return(c, auth_header, now) ==
  IF auth_header = <<>>
  THEN Reject(NoReq, 401, M("Authorization header required"))
  ELSE LET parts == split(auth_header) IN
    IF Len(parts) # 2 \/ lower(parts[1]) # << W("bearer") >>
    THEN Reject(NoReq, 401, M("Invalid authorization format. Use: Bearer <token>"))
    ELSE LET token == parts[2]
             v == verify_jwt_token(c, token, now)
             r == [ NoReq EXCEPT !.vcalled = TRUE, !.vtoken = token, !.verdict = v ]
         IN [ r EXCEPT !.current_user = v.payload, !.handler = TRUE ]

\* decorated() comparing the scheme word without lower()
jwt_required_case_sensitive(c, auth_header, now) ==
  IF auth_header = <<>>
  THEN Reject(NoReq, 401, M("Authorization header required"))
  ELSE LET parts == split(auth_header) IN
    IF Len(parts) # 2 \/ parts[1] # << W("Bearer") >>
    THEN Reject(NoReq, 401, M("Invalid authorization format. Use: Bearer <token>"))
    ELSE LET token == parts[2]
             v == verify_jwt_token(c, token, now)
             r == [ NoReq EXCEPT !.vcalled = TRUE, !.vtoken = token, !.verdict = v ]
         IN IF ~v.ok
            THEN Reject(r, 401, v.error)
            ELSE [ r EXCEPT !.current_user = v.payload, !.handler = TRUE ]

\* decorated(): the result has handler = TRUE exactly when the wrapped view
\* function is called (line 167), with request.current_user already attached.
jwt_required(c, auth_header, now) ==
  IF auth_header = <<>>
  THEN Reject(NoReq, 401, M("Authorization header required"))
  ELSE LET parts == split(auth_header) IN
    IF Len(parts) # 2 \/ lower(parts[1]) # << W("bearer") >>
    THEN Reject(NoReq, 401, M("Invalid authorization format. Use: Bearer <token>"))
    ELSE LET token == parts[2]
             v == verify_jwt_token(c, token, now)
             r == [ NoReq EXCEPT !.vcalled = TRUE, !.vtoken = token, !.verdict = v ]
         IN IF ~v.ok
            THEN Reject(r, 401, v.error)
            ELSE [ r EXCEPT !.current_user = v.payload, !.handler = TRUE ]

\* ------------------------------------------------------------------ /users
\* current_user['username'] raises KeyError when the claim is absent
list_users(table, r) ==
  IF "username" \notin r.current_user.has
  THEN internal_error(r)
  ELSE [ r EXCEPT !.status = 200,
                  !.users = get_all_users(table),
                  !.total = Cardinality(get_all_users(table)),
                  !.requested_by = r.current_user.username ]

\* @jwt_required applied to list_users
users_endpoint(c, table, auth_header, now) ==
  LET g == jwt_required(c, auth_header, now) IN
    IF g.handler THEN list_users(table, g) ELSE g

\* ----------------------------------------------------------------- /verify
\* auth_header.startswith('Bearer ')
StartsWithBearer(h) == Len(h) >= 2 /\ h[1] = W("Bearer") /\ h[2] = SP

verify_token(c, query, auth_header, now) ==
  LET arg == IF query.present THEN query.v ELSE <<>>
      token == IF arg # <<>> THEN arg
               ELSE IF StartsWithBearer(auth_header)
               THEN SubSeq(auth_header, 3, Len(auth_header))
               ELSE arg
  IN IF token = <<>>
     THEN Reject(NoReq, 400, M("No token provided. Use ?token=<jwt> or Authorization header"))
     ELSE LET v == verify_jwt_token(c, token, now)
              r == [ NoReq EXCEPT !.vcalled = TRUE, !.vtoken = token, !.verdict = v ]
          IN IF v.ok
             THEN IF "username" \notin v.payload.has
                  THEN internal_error(r)
                  ELSE [ r EXCEPT !.status = 200, !.valid = TRUE,
                                  !.payload = [ user_id    |-> v.payload.sub,
                                                username   |-> v.payload.username,
                                                issued_at  |-> v.payload.iat,
                                                expires_at |-> v.payload.exp ] ]
             ELSE Reject(r, 401, v.error)

\* ------------------------------------------------------------------- state
VARIABLES
  phase,   \* "boot", "running" or "aborted" (the import of the app failed)
  env,     \* the process environment
  cfg,     \* the Config class attributes, once loaded
  users,   \* the users table
  now,     \* the clock
  held,    \* a token a client got from /login and kept, with the record it was issued for
  last     \* the exchange in progress: a request and the service's response to it

vars == << phase, env, cfg, users, now, held, last >>

NoHeld == [ token |-> NoToken, user |-> NoUser, some |-> FALSE ]

\* ------------------------------------------------------------------ inputs
UsernameInputs ==
  { JStr(s) : s \in {"admin", "Admin", "user1", "legacy", "ghost", ""} } \cup { JNull }
PasswordInputs ==
  { JStr(s) : s \in {"admin123", "password1", "wrong", ""} } \cup { JNull, JNum("123") }
BodyInputs ==
  { NoBody } \cup
  { [ present |-> TRUE, username |-> u, password |-> p ] :
      u \in UsernameInputs, p \in PasswordInputs }

\* Tokens made outside the service: signed with the service's secret (a party
\* that shares it, or anyone when the secret is the published default) or with
\* another key, carrying any subset of the claims.
ForgedTokens(c) ==
  { [ alg |-> "HS256", key |-> k,
      claims |-> [ has |-> h \cup {"iss"},
                   sub |-> IF "sub" \in h THEN "1" ELSE "",
                   username |-> IF "username" \in h THEN "admin" ELSE "",
                   iat |-> 0,
                   exp |-> IF "exp" \in h THEN 2 ELSE 0,
                   iss |-> "user-service" ] ] :
      k \in {c.JWT_SECRET_KEY, "attacker-key"},
      h \in SUBSET {"sub", "username", "iat", "exp"} }
  \cup
  { [ alg |-> "none", key |-> "",
      claims |-> [ has |-> ClaimNames, sub |-> "1", username |-> "admin",
                   iat |-> 0, exp |-> 2, iss |-> "user-service" ] ] }

PresentedTokens == ForgedTokens(cfg) \cup (IF held.some THEN {held.token} ELSE {})

FullForged(c) ==
  [ alg |-> "HS256", key |-> c.JWT_SECRET_KEY,
    claims |-> [ has |-> ClaimNames, sub |-> "1", username |-> "admin",
                 iat |-> 0, exp |-> 2, iss |-> "user-service" ] ]

HeaderInputs ==
  LET t == T(FullForged(cfg)) IN
  { <<>>, << SP >>, << W("Bearer") >>, << W("Bearer"), SP >>,
    << W("Bearer"), SP, W("abc") >>, << W("Token"), SP, W("abc") >>,
    << W("Token"), SP, t >>, << t >>, << W("Bearer"), t >>,
    << W("Bearer"), TAB, t >>, << W("BEARER"), SP, SP, t >>,
    << SP, W("Bearer"), SP, t, SP >>, << W("Bearer"), SP, t, SP, t >>,
    << W("Bearer"), SP, t, SP, W("abc") >> }
  \cup { << W(b), SP, T(x) >> : b \in {"Bearer", "bearer"}, x \in PresentedTokens }

QueryInputs ==
  { [ present |-> TRUE, v |-> <<>> ], [ present |-> TRUE, v |-> << W("abc") >> ] }
  \cup { [ present |-> TRUE, v |-> << T(x) >> ] : x \in PresentedTokens }

\* ----------------------------------------------------------------- actions
Init ==
  /\ phase = "boot"
  /\ env \in [ JWT_SECRET_KEY : EnvSecrets, JWT_EXPIRATION_HOURS : EnvHours ]
  /\ cfg = NoConfig
  /\ users \in { EmptyTable, ProvisionedTable }
  /\ now = 0
  /\ held = NoHeld
  /\ last = NoReq

\* Import of the application module: the Config class body runs (int() may
\* raise), then init_db().
Startup ==
  /\ phase = "boot"
  /\ IF ConfigLoads(env)
     THEN /\ phase' = "running"
          /\ cfg' = Config(env)
          /\ users' = init_db(users)
     ELSE /\ phase' = "aborted"
          /\ UNCHANGED << cfg, users >>
  /\ UNCHANGED << env, now, held, last >>

Tick ==
  /\ now < MaxTime
  /\ last.op = "none"
  /\ now' = now + 1
  /\ UNCHANGED << phase, env, cfg, users, held, last >>

\* The response is sent; the next request can be taken.
Respond ==
  /\ last.op # "none"
  /\ last' = NoReq
  /\ UNCHANGED << phase, env, cfg, users, now, held >>

Login ==
  /\ phase = "running"
  /\ last.op = "none"
  /\ \E body \in BodyInputs :
       LET r == login(cfg, users, body, now) IN
         /\ last' = [ r EXCEPT !.op = "login", !.at = now, !.body = body ]
         /\ \/ held' = held
            \/ /\ r.status = 200
               /\ held' = [ token |-> r.token, some |-> TRUE,
                            user |-> [ id |-> r.user.id, username |-> r.user.username,
                                       email |-> r.user.email ] ]
  /\ UNCHANGED << phase, env, cfg, users, now >>

Verify ==
  /\ phase = "running"
  /\ last.op = "none"
  /\ \E q \in QueryInputs \cup { NoQuery }, h \in HeaderInputs :
       /\ q.present => h = <<>>
       /\ last' = [ verify_token(cfg, q, h, now) EXCEPT
                      !.op = "verify", !.at = now, !.query = q, !.header = h ]
  /\ UNCHANGED << phase, env, cfg, users, now, held >>

Users ==
  /\ phase = "running"
  /\ last.op = "none"
  /\ \E h \in HeaderInputs :
       last' = [ users_endpoint(cfg, users, h, now) EXCEPT
                   !.op = "users", !.at = now, !.header = h ]
  /\ UNCHANGED << phase, env, cfg, users, now, held >>

Next == Startup \/ Tick \/ Respond \/ Login \/ Verify \/ Users

Spec == Init /\ [][Next]_vars

\* ------------------------------------------------------------ properties
IsJwt(s) == Len(s) = 1 /\ s[1].k = "tok"

\* p is the password the stored hash string h was computed from
PasswordMatches(p, h) == p.t = "string" /\ h.fmt = "bcrypt" /\ h.digest = p.s

\* The token carries a signature made with the configured secret and algorithm
SignedByService(tok) == tok.alg = cfg.JWT_ALGORITHM /\ tok.key = cfg.JWT_SECRET_KEY

\* C1: a login with a stored username and a password matching its stored hash
\* returns a token whose sub is the string form of the stored id and whose
\* username is the stored username; a token a client keeps from such a login
\* is accepted by the Token Verifier at every instant strictly before its exp,
\* whatever requests were served in between.
C1_LoginTokenVerifies ==
  /\ \A r \in users :
       ( /\ last.op = "login"
         /\ last.body.present
         /\ last.body.username = JStr(r.username)
         /\ PasswordMatches(last.body.password, r.password_hash) )
       => /\ last.status = 200
          /\ last.token.claims.sub = IdStr(r.id)
          /\ last.token.claims.username = r.username
          /\ last.at < last.token.claims.exp
               => verify_jwt_token(cfg, << T(last.token) >>, last.at).ok
  /\ held.some =>
       /\ \E r \in users :
            /\ r.id = held.user.id
            /\ r.username = held.user.username
            /\ held.token.claims.sub = IdStr(r.id)
            /\ held.token.claims.username = r.username
       /\ now < held.token.claims.exp =>
            LET v == verify_jwt_token(cfg, << T(held.token) >>, now) IN
              v.ok /\ v.payload = held.token.claims

\* C1 witness: a kept token is admitted by the gate at a later instant, before its exp
C1_Witness ==
  /\ held.some
  /\ held.token.claims.iat < now
  /\ now < held.token.claims.exp
  /\ last.op = "users"
  /\ last.vtoken = << T(held.token) >>
  /\ last.status = 200

\* C2: on a gate-protected endpoint the handler runs only when the Token
\* Verifier reported the presented token valid, the identity on the request is
\* the claim set the Verifier returned, and when the Verifier rejects the
\* handler does not run and the response carries the Verifier's description.
C2_GateAdmitsOnlyVerified ==
  last.op = "users" =>
    /\ last.handler =>
         /\ last.vcalled
         /\ last.verdict.ok
         /\ last.verdict = verify_jwt_token(cfg, last.vtoken, last.at)
         /\ last.current_user = last.verdict.payload
    /\ last.status = 200 =>
         /\ last.handler
         /\ last.requested_by = last.verdict.payload.username
    /\ (last.vcalled /\ ~last.verdict.ok) =>
         /\ ~last.handler
         /\ last.status = 401
         /\ last.error = last.verdict.error
         /\ last.current_user = NoPayload
    /\ ~last.vcalled => ~last.handler

\* C2 witness: a request admitted by the gate, the handler answering for the verified identity
C2_Witness ==
  /\ last.op = "users"
  /\ last.handler
  /\ last.status = 200
  /\ last.requested_by = "admin"

TokenStrings == { << T(x) >> : x \in PresentedTokens } \cup { << W("abc") >> }

NonExpiryRejection(v) == ~v.ok /\ v.error # M("Token has expired")

C4_OneInvalidDescription ==
  (last.vcalled /\ NonExpiryRejection(last.verdict)) =>
    \A x \in TokenStrings :
      LET v == verify_jwt_token(cfg, x, last.at) IN
        NonExpiryRejection(v) => v.error = last.verdict.error

\* C5: a login with a non-empty username and password that does not succeed,
\* whether the username is unknown or the password is wrong for it, ends in
\* the same response: status 401 with "Invalid credentials".
C5_NoUsernameOracle ==
  ( /\ last.op = "login"
    /\ last.body.present
    /\ Truthy(last.body.username)
    /\ Truthy(last.body.password)
    /\ ~ \E r \in users : /\ r.username = last.body.username.s
                          /\ PasswordMatches(last.body.password, r.password_hash) )
  => /\ last.status = 401
     /\ last.error = M("Invalid credentials")

\* Whitespace-separated parts of a header value, read off the value itself:
\* the positions where a part starts, and the part that starts at a position.
PartStarts(h) == { i \in 1..Len(h) : h[i].k # "ws" /\ (i = 1 \/ h[i - 1].k = "ws") }

PartAt(h, i) ==
  LET j == CHOOSE e \in i..Len(h) :
             /\ \A m \in i..e : h[m].k # "ws"
             /\ (e = Len(h) \/ h[e + 1].k = "ws")
  IN SubSeq(h, i, j)

FirstStart(h) == CHOOSE i \in PartStarts(h) : \A m \in PartStarts(h) : i <= m
SecondStart(h) == CHOOSE i \in PartStarts(h) : \A m \in PartStarts(h) : m <= i

BearerShape(h) ==
  /\ Cardinality(PartStarts(h)) = 2
  /\ PartAt(h, FirstStart(h)) \in { << W(b) >> : b \in {"Bearer", "bearer", "BEARER"} }

\* C6: the gate answers "Authorization header required" when there is no
\* header value, "Invalid authorization format" for every value that is not
\* exactly two whitespace-separated parts with the first one "Bearer" in any
\* letter case, and hands exactly the second part of a value of that shape to
\* the Token Verifier.
C6_GateHeaderFormat ==
  last.op = "users" =>
    /\ last.header = <<>> =>
         /\ last.status = 401
         /\ last.error = M("Authorization header required")
         /\ ~last.vcalled
    /\ (last.header # <<>> /\ ~BearerShape(last.header)) =>
         /\ last.status = 401
         /\ last.error = M("Invalid authorization format. Use: Bearer <token>")
         /\ ~last.vcalled
    /\ (last.header # <<>> /\ BearerShape(last.header)) =>
         /\ last.vcalled
         /\ last.vtoken = PartAt(last.header, SecondStart(last.header))

\* C6 witness: a header with the scheme word in another letter case and extra
\* whitespace, whose second part reached the Token Verifier
C6_Witness ==
  /\ last.op = "users"
  /\ Len(last.header) = 4
  /\ last.header[1] = W("BEARER")
  /\ last.vcalled
  /\ last.vtoken = << last.header[4] >>

\* C7: every token the Token Issuer produced has exp = iat + the configured
\* lifetime and exp strictly greater than iat.
C7_ExpAfterIat ==
  (last.op = "login" /\ last.status = 200) =>
    /\ last.token.claims.exp = last.token.claims.iat + cfg.JWT_EXPIRATION_HOURS
    /\ last.token.claims.exp > last.token.claims.iat

\* C8: password verification does not raise, returns false on a stored hash
\* string that is not a bcrypt hash, and login on such a record ends in the
\* 401 "Invalid credentials" rejection.
C8_VerifyPasswordTotal ==
  ( /\ last.op = "login"
    /\ last.body.present
    /\ Truthy(last.body.username)
    /\ last.body.password.t = "string"
    /\ last.body.password.s # ""
    /\ UserExists(users, last.body.username.s) )
  => LET h == get_user_by_username(users, last.body.username.s).password_hash
         v == verify_password(last.body.password, h)
     IN /\ ~v.raised
        /\ h.fmt # "bcrypt" =>
             /\ ~v.value
             /\ last.status = 401
             /\ last.error = M("Invalid credentials")

\* C9: no request to /login, /verify or the protected endpoint ends in an
\* unhandled exception, and every token the Verifier accepts gets a success
\* response from /verify and from the protected endpoint.
C9_NoUnhandledException ==
  last.op # "none" =>
    /\ ~last.raised
    /\ last.status \in {200, 400, 401}
    /\ (last.op \in {"verify", "users"} /\ last.vcalled /\ last.verdict.ok)
         => last.status = 200

\* C10: with the signing secret missing or empty in the environment the
\* service never runs (it neither issues nor verifies a token), and a running
\* service never signs with a built-in default.
C10_SecretRequired ==
  /\ env.JWT_SECRET_KEY \in {Unset, ""} =>
       /\ phase # "running"
       /\ last.op = "none"
       /\ ~held.some
  /\ phase = "running" => cfg.JWT_SECRET_KEY = env.JWT_SECRET_KEY

\* C11: with no query-parameter token, /verify and the gate agree on every
\* Authorization header value: either both hand the same token string to the
\* Token Verifier, or neither reaches the Verifier.
C11_HeaderAgreement ==
  /\ (last.op = "verify" /\ ~last.query.present) =>
       LET g == jwt_required(cfg, last.header, last.at) IN
         /\ g.vcalled = last.vcalled
         /\ g.vtoken = last.vtoken
  /\ last.op = "users" =>
       LET v == verify_token(cfg, NoQuery, last.header, last.at) IN
         /\ v.vcalled = last.vcalled
         /\ v.vtoken = last.vtoken

====
